---- MODULE Spec2Model ----
(***************************************************************************)
(* Readout Confusion Inversion (mitiq/rem/rci.py).                         *)
(*                                                                         *)
(* execute_with_rci is modelled statement group by statement group: the   *)
(* variable pc is the position inside the function, the other variables   *)
(* are its arguments, its locals and what the collaborators (executor,    *)
(* calibration sampler, observable) have been asked to do so far.          *)
(* mitigate_executor and rci_decorator build closures over it.             *)
(*                                                                         *)
(* Numbers: matrices hold integers.  The sampling primitive normalises    *)
(* |amplitude|^2, so only the set of non-zero entries of a corrected row   *)
(* decides which outcomes it can draw; a positive common factor is        *)
(* irrelevant.  Probabilities p0, p1 are percentages.                      *)
(***************************************************************************)
EXTENDS Integers, Sequences, FiniteSets, TLC

VARIABLES
    pc,                        \* position inside execute_with_rci
    args,                      \* arguments of the call in progress (or last call)
    executor,                  \* local: the executor after line 70
    qubits,                    \* local: list(circuit.all_qubits())
    inverse_confusion_matrix,  \* local: the matrix in use
    noisy_result,              \* local: result[0] of the executor run
    noisy_state_vectors,       \* local: batch of one-hot vectors
    adjusted_state_vectors,    \* local: corrected batch
    adjusted_result,           \* local: resampled, squeezed array
    result,                    \* local: the corrected MeasurementResult
    ret,                       \* value returned by the call
    err,                       \* exception that ended the call ("none": none)
    log,                       \* collaborator interactions of this call, in order
    noneCalls,                 \* calls started so far without a supplied matrix
    totalCalibrations,         \* calibration runs so far, over all calls
    decorator,                 \* closure returned by rci_decorator (or None)
    mitigated,                 \* closure returned by mitigate_executor (or None)
    mitigatedBy,               \* who called mitigate_executor for it
    decoratorArg,              \* first argument of the latest rci_decorator call
    setupErr                   \* exception raised by rci_decorator ("none": none)

vars == << pc, args, executor, qubits, inverse_confusion_matrix, noisy_result,
           noisy_state_vectors, adjusted_state_vectors, adjusted_result,
           result, ret, err, log, noneCalls, totalCalibrations,
           decorator, mitigated, mitigatedBy, decoratorArg, setupErr >>

\* Every Python value is a record with a type field; None is one of them.
None == [type |-> "NoneType"]

\* ------------------------------------------------------------------ bounds
MaxQubits == 2
MaxShots == 2
\* calls without a supplied matrix (the calls the model counts)
MaxCalls == 2

\* p0 = p1 = 0.01, as a percentage
DefaultP == 1
\* the tests' fully flipping sampler: p0 = p1 = 1
FullFlipP == 100

\* ------------------------------------------------------------ arithmetic
RECURSIVE Pow2(_)
Pow2(n) == IF n = 0 THEN 1 ELSE 2 * Pow2(n - 1)

\* int.bit_length()
RECURSIVE BitLength(_)
BitLength(k) == IF k = 0 THEN 0 ELSE 1 + BitLength(k \div 2)

RECURSIVE SeqSum(_)
SeqSum(s) == IF s = << >> THEN 0 ELSE Head(s) + SeqSum(Tail(s))

BitVectors(n) == [1..n -> {0, 1}]

\* A bit string read as a binary integer, last bit most significant.
RECURSIVE LittleEndianInt(_)
LittleEndianInt(bits) ==
    IF bits = << >> THEN 0
    ELSE Head(bits) + 2 * LittleEndianInt(Tail(bits))

\* A bit string read as a binary integer, first bit most significant
\* (the convention of to_valid_state_vector for per-qubit values).
RECURSIVE BigEndianInt(_)
BigEndianInt(bits) ==
    IF bits = << >> THEN 0
    ELSE Head(bits) * Pow2(Len(bits) - 1) + BigEndianInt(Tail(bits))

\* big_endian_int_to_digits: k as n bits, most significant first
BigEndianDigits(k, n) == [i \in 1..n |-> (k \div Pow2(n - i)) % 2]

\* ----------------------------------------------------------------- arrays
\* An ndarray: its shape and its entries in row-major order.
RECURSIVE Concat(_)
Concat(ss) == IF ss = << >> THEN << >> ELSE Head(ss) \o Concat(Tail(ss))

\* A 2-D array from its rows.
FromRows(rs) ==
    [type |-> "ndarray", shape |-> << Len(rs), Len(rs[1]) >>, flat |-> Concat(rs)]

Rows(A) == A.shape[1]
Cols(A) == A.shape[2]
At(A, i, j) == A.flat[(i - 1) * Cols(A) + j]
Row(A, i) == [j \in 1..Cols(A) |-> At(A, i, j)]
Column(A, j) == [i \in 1..Rows(A) |-> At(A, i, j)]

\* ndarray.T of a 2-D array
Transpose(A) ==
    FromRows([i \in 1..Cols(A) |-> [j \in 1..Rows(A) |-> At(A, j, i)]])

\* numpy's A @ B for 2-D operands: a ValueError unless Cols(A) = Rows(B)
MatMulDefined(A, B) == Cols(A) = Rows(B)
MatMul(A, B) ==
    FromRows([i \in 1..Rows(A) |-> [j \in 1..Cols(B) |->
        SeqSum([k \in 1..Cols(A) |-> At(A, i, k) * At(B, k, j)])]])

\* np.apply_along_axis(f, 1, A) on a 2-D array A, f returning an array of
\* shape fshape: the result has shape (Rows(A),) + fshape
ApplyAlongAxis1(outs, fshape) ==
    [type |-> "ndarray", shape |-> << Len(outs) >> \o fshape, flat |-> Concat(outs)]

\* ndarray.squeeze(): every axis of length 1 is dropped
Squeeze(a) == [a EXCEPT !.shape = SelectSeq(a.shape, LAMBDA dim : dim # 1)]

Unit(d, i) == [j \in 1..d |-> IF j = i THEN 1 ELSE 0]

\* ------------------------------------------------------------- matrices
Identity(d) ==
    FromRows([i \in 1..d |-> [j \in 1..d |->
        IF i = j THEN 1 ELSE 0]])
\* entry (i, d-1-i) = 1, zero-based: the full bit-flip permutation
AntiDiag(d) ==
    FromRows([i \in 1..d |-> [j \in 1..d |->
        IF i + j = d + 1 THEN 1 ELSE 0]])
\* a cyclic shift: a permutation that is not symmetric
Shift(d) ==
    FromRows([i \in 1..d |-> [j \in 1..d |->
        IF i = (j % d) + 1 THEN 1 ELSE 0]])
\* first column all zero: a degenerate corrected row
ZeroCol(d) ==
    FromRows([i \in 1..d |-> [j \in 1..d |->
        IF i = j /\ j > 1 THEN 1 ELSE 0]])
\* negative and non-normalised entries; column 1 has two non-zero entries
Mix(d) ==
    FromRows([i \in 1..d |-> [j \in 1..d |->
        IF i = j THEN 2 ELSE IF j = 1 /\ i = d THEN -1 ELSE 0]])
\* r x c: identities stacked (r > c) or an identity beside zeros (r < c)
Rect(r, c) ==
    FromRows([i \in 1..r |-> [j \in 1..c |->
        IF (i - 1) % c = j - 1 THEN 1 ELSE 0]])

SquareMatrices(d) == {Identity(d), AntiDiag(d), Shift(d), ZeroCol(d), Mix(d)}

\* Every 2 x 2 matrix over {-1, 0, 1}.
SmallMatrices == {FromRows(rs) : rs \in [1..2 -> [1..2 -> {-1, 0, 1}]]}

\* Matrices that are not 2^n x 2^n: too many or too few rows, a row count
\* that is no power of two, too many columns, a square of another size.
MismatchedMatrices(n) ==
    LET d == Pow2(n)
    IN  {Rect(2 * d, d), Rect(d \div 2, d), Rect(3, d), Rect(d, 2 * d),
         Identity(d \div 2), Identity(2 * d)}

\* The matrices a caller supplies for a circuit of n qubits.
SuppliedMatrices(n) ==
    SquareMatrices(Pow2(n)) \cup MismatchedMatrices(n)
        \cup (IF n = 1 THEN SmallMatrices ELSE {})

IsSquareOfDim(M, d) == Rows(M) = d /\ Cols(M) = d

\* ------------------------------------------------- values of the program
\* A circuit: its number of qubits and the bit string an ideal device
\* measures on it (the tests' circuit X on each qubit: all ones).
Circuit(n, ideal) == [type |-> "Circuit", nqubits |-> n, ideal |-> ideal]
Circuits == UNION {{Circuit(n, b) : b \in BitVectors(n)} : n \in 1..MaxQubits}
AllOnes(n) == [q \in 1..n |-> 1]
Complement(bits) == [q \in 1..Len(bits) |-> 1 - bits[q]]

\* Executor functions, by what they return for a circuit:
\*   "ideal"    every shot is the ideal bit string (noise_level 0),
\*   "flipped"  every shot has every bit flipped (p0 = p1 = 1),
\*   "noisy"    any bits,
\*   "scalar"   not a MeasurementResult (test_doc_is_preserved's executors).
NoDoc == "<no docstring>"
Function(name, doc, returns) ==
    [type |-> "function", name |-> name, doc |-> doc, returns |-> returns]
sample_bitstrings == Function("sample_bitstrings", "Samples bitstrings.", "ideal")
noisy_readout_executor == Function("noisy_readout_executor", NoDoc, "flipped")
noisy_executor == Function("noisy_executor", NoDoc, "noisy")
first_executor ==
    Function("first_executor", "Doc of the original executor.", "scalar")
Functions ==
    {sample_bitstrings, noisy_readout_executor, noisy_executor, first_executor}

\* Observable(PauliString("ZI"), PauliString("IZ")): Z on every qubit
ZSum == [type |-> "Observable", paulis |-> "Z on each qubit"]

\* Qubit indices an executor records on its result: ascending 0..n-1,
\* descending n-1..0, or the register 1..n.
Ascending(n) == [k \in 1..n |-> k - 1]
Descending(n) == [k \in 1..n |-> n - k]
Shifted(n) == [k \in 1..n |-> k]
QubitIndexTuples(n) == {Ascending(n), Descending(n), Shifted(n)}

MeasurementResultOf(obj, array, indices) ==
    [type |-> "MeasurementResult", obj |-> obj, result |-> array,
     qubit_indices |-> indices]

\* What an executor function can return for a circuit.
Returns(fn, circuit) ==
    LET n == circuit.nqubits
        rowSet == CASE fn.returns = "ideal" -> {circuit.ideal}
                    [] fn.returns = "flipped" -> {Complement(circuit.ideal)}
                    [] OTHER -> BitVectors(n)
    IN  IF fn.returns = "scalar" THEN {[type |-> "int", value |-> 0]}
        ELSE {MeasurementResultOf("noisy", FromRows(rs), idx) :
                 rs \in UNION {[1..shots -> rowSet] : shots \in 1..MaxShots},
                 idx \in QubitIndexTuples(n)}

\* --------------------------------------------------- external primitives
\* cirq's to_valid_state_vector on a row of per-qubit values, read with the
\* last qubit most significant
LittleEndianStateVector(state_rep, num_qubits) ==
    Unit(Pow2(num_qubits), LittleEndianInt(state_rep) + 1)

\* cirq's to_valid_state_vector on a row of per-qubit values: the basis
\* state of that big-endian integer
to_valid_state_vector(state_rep, num_qubits) ==
    Unit(Pow2(num_qubits), BigEndianInt(state_rep) + 1)

\* cirq's sample_state_vector(state_vector, indices), repetitions = 1.
\* The number of qubits is read off the vector's size; the indices must
\* name qubits of it; the probabilities |amplitude|^2 are normalised by
\* their sum (0/0 is NaN, which the draw rejects).
SampleQubits(v) == BitLength(Len(v)) - 1
SampleError(v, indices) ==
    IF Len(v) # Pow2(SampleQubits(v)) THEN "ValueError"
    ELSE IF \E k \in 1..Len(indices) :
                indices[k] < 0 \/ indices[k] >= SampleQubits(v)
         THEN "IndexError"
    ELSE IF \A i \in 1..Len(v) : v[i] = 0 THEN "ValueError"
    ELSE "none"
\* The bit strings the draw can return: for a basis state i of non-zero
\* weight, the bits of i at the qubits named by indices, in that order.
SampleOutcomes(v, indices) ==
    {[k \in 1..Len(indices) |->
         BigEndianDigits(i - 1, SampleQubits(v))[indices[k] + 1]] :
        i \in {i \in 1..Len(v) : v[i] # 0}}

\* ------------------------------------------------ execute_with_rci, parts
\* isinstance(executor, Executor)
IsExecutor(x) == x.type = "Executor"
\* Executor(executor)
ExecutorOf(fn) == [type |-> "Executor", executor |-> fn]

\* inverse_confusion_matrix is None (line 74)
NeedsCalibrationOnce(m) == m = None /\ totalCalibrations = 0
NeedsCalibration(m) == m = None

\* measure_confusion_matrix(NoisySingleQubitReadoutSampler(p0, p1), ...)
\* .correction_matrix(): a 2^n x 2^n matrix; the sampler is random, the
\* matrix is one of several.
CalibrationOutcomes(n, p0, p1) ==
    IF p0 = FullFlipP /\ p1 = FullFlipP THEN {AntiDiag(Pow2(n))}
    ELSE {Identity(Pow2(n)), Mix(Pow2(n))}

\* the argument of executor._run (line 84)
RunArgument(circuit) == << circuit >>

\* noisy_state_vectors (lines 88-94)
NoisyStateVectorsLittleEndian(asarray, num_qubits) ==
    FromRows([s \in 1..Rows(asarray) |->
                  LittleEndianStateVector(Row(asarray, s), num_qubits)])
NoisyStateVectors(asarray, num_qubits) ==
    FromRows([s \in 1..Rows(asarray) |->
                  to_valid_state_vector(Row(asarray, s), num_qubits)])

\* adjusted_state_vectors (lines 96-98)
AdjustedDefined(M, V) == MatMulDefined(M, Transpose(V))
AdjustedStateVectors(M, V) == Transpose(MatMul(M, Transpose(V)))

\* the list handed to the observable (line 109)
EvaluationArgumentNoisy(corrected, noisy) == << noisy >>
EvaluationArgument(corrected, noisy) == << corrected >>

\* MeasurementResult(adjusted_result, qubit_indices): a sequence of shots,
\* each a bit vector with one bit per recorded qubit index; anything else
\* is rejected when the result is built.
MeasurementResultValid(array, indices) ==
    Len(array.shape) = 2 /\ array.shape[2] = Len(indices)

\* Observable._expectation_from_measurements for Z on every qubit: the sum
\* over the qubits of the mean of (-1)^bit over the shots, kept as the sum
\* over all shots and the number of shots.
ExpectationFromMeasurements(measurements) ==
    LET m == measurements[1].result
    IN  [type |-> "float",
         num |-> SeqSum([k \in 1..Len(m.flat) |-> 1 - 2 * m.flat[k]]),
         shots |-> Rows(m)]

\* ----------------------------------------------------------------- state
Init ==
    /\ pc = "idle"
    /\ args = None
    /\ executor = None
    /\ qubits = << >>
    /\ inverse_confusion_matrix = None
    /\ noisy_result = None
    /\ noisy_state_vectors = None
    /\ adjusted_state_vectors = None
    /\ adjusted_result = None
    /\ result = None
    /\ ret = None
    /\ err = "none"
    /\ log = << >>
    /\ noneCalls = 0
    /\ totalCalibrations = 0
    /\ decorator = None
    /\ mitigated = None
    /\ mitigatedBy = "nobody"
    /\ decoratorArg = [type |-> "unset"]
    /\ setupErr = "none"

setup == << decorator, mitigated, mitigatedBy, decoratorArg, setupErr >>
locals == << noisy_result, noisy_state_vectors, adjusted_state_vectors,
             adjusted_result, result >>

\* The call raised: the exception propagates to the caller.
Raise(e) == pc' = "done" /\ err' = e /\ ret' = None

\* ------------------------------------------------------ execute_with_rci
\* Entry, lines 69-74: wrap a bare callable, list the qubits, branch on
\* the matrix argument.
Begin(via, circuit, exec, observable, matrix, p0, p1) ==
    /\ pc = "idle"
    /\ matrix = None => noneCalls < MaxCalls
    /\ args' = [via |-> via, circuit |-> circuit, executor |-> exec,
                observable |-> observable,
                inverse_confusion_matrix |-> matrix, p0 |-> p0, p1 |-> p1]
    /\ executor' = IF IsExecutor(exec) THEN exec ELSE ExecutorOf(exec)
    /\ qubits' = Ascending(circuit.nqubits)
    /\ inverse_confusion_matrix' = matrix
    /\ noisy_result' = None
    /\ noisy_state_vectors' = None
    /\ adjusted_state_vectors' = None
    /\ adjusted_result' = None
    /\ result' = None
    /\ ret' = None
    /\ err' = "none"
    /\ log' = << >>
    /\ noneCalls' = IF matrix = None THEN noneCalls + 1 ELSE noneCalls
    /\ pc' = IF NeedsCalibration(matrix) THEN "calibrate" ELSE "run"
    /\ UNCHANGED << totalCalibrations, setup >>

\* Lines 75-82: the notice, then the calibration sampling.
Calibrate ==
    /\ pc = "calibrate"
    /\ \E m \in CalibrationOutcomes(Len(qubits), args.p0, args.p1) :
          inverse_confusion_matrix' = m
    /\ log' = log \o << [ev |-> "notice"],
                        [ev |-> "calibrate", qubits |-> qubits] >>
    /\ totalCalibrations' = totalCalibrations + 1
    /\ pc' = "run"
    /\ UNCHANGED << args, executor, qubits, locals, ret, err, noneCalls, setup >>

\* Lines 84-98: executor._run([circuit]); result[0] must be a
\* MeasurementResult; then the one-hot batch and the matrix product.
RunExecutor ==
    /\ pc = "run"
    /\ \E r \in Returns(executor.executor, args.circuit) :
          /\ noisy_result' = r
          /\ IF r.type # "MeasurementResult"
             THEN /\ Raise("AssertionError")
                  /\ UNCHANGED << noisy_state_vectors, adjusted_state_vectors >>
             ELSE LET V == NoisyStateVectors(r.result, Len(qubits))
                  IN  /\ noisy_state_vectors' = V
                      /\ IF AdjustedDefined(inverse_confusion_matrix, V)
                         THEN /\ adjusted_state_vectors' =
                                   AdjustedStateVectors(inverse_confusion_matrix, V)
                              /\ pc' = "resample"
                              /\ UNCHANGED << ret, err >>
                         ELSE /\ Raise("ValueError")
                              /\ UNCHANGED adjusted_state_vectors
    /\ log' = Append(log, [ev |-> "run", executor |-> executor.executor,
                           circuits |-> RunArgument(args.circuit)])
    /\ UNCHANGED << args, executor, qubits, inverse_confusion_matrix,
                    adjusted_result, result, noneCalls, totalCalibrations,
                    setup >>

\* Lines 100-108: one draw per corrected row, stacked and squeezed, then
\* the corrected MeasurementResult.  The first row the primitive rejects
\* ends the call.
Resample ==
    /\ pc = "resample"
    /\ LET A == adjusted_state_vectors
           idx == noisy_result.qubit_indices
           bad == {s \in 1..Rows(A) : SampleError(Row(A, s), idx) # "none"}
           outs == [s \in 1..Rows(A) |-> SampleOutcomes(Row(A, s), idx)]
       IN  IF bad # {}
           THEN /\ Raise(SampleError(Row(A, CHOOSE s \in bad :
                                            \A t \in bad : s <= t), idx))
                /\ UNCHANGED << adjusted_result, result >>
           ELSE \E draws \in [1..Rows(A) -> UNION {outs[s] : s \in 1..Rows(A)}] :
                   /\ \A s \in 1..Rows(A) : draws[s] \in outs[s]
                   /\ LET squeezed ==
                              Squeeze(ApplyAlongAxis1(draws, << 1, Len(idx) >>))
                      IN  /\ adjusted_result' = squeezed
                          /\ IF MeasurementResultValid(squeezed, idx)
                             THEN /\ result' = MeasurementResultOf(
                                                   "corrected", squeezed, idx)
                                  /\ pc' = "evaluate"
                                  /\ UNCHANGED << ret, err >>
                             ELSE /\ Raise("TypeError")
                                  /\ UNCHANGED result
    /\ UNCHANGED << args, executor, qubits, inverse_confusion_matrix,
                    noisy_result, noisy_state_vectors,
                    adjusted_state_vectors, log, noneCalls,
                    totalCalibrations, setup >>

\* Line 109: the observable's expectation value; observable defaults to
\* None, which has no such method.
Evaluate ==
    /\ pc = "evaluate"
    /\ IF args.observable = None
       THEN Raise("AttributeError") /\ UNCHANGED log
       ELSE LET ms == EvaluationArgument(result, noisy_result)
            IN  /\ log' = Append(log, [ev |-> "expectation",
                                       measurements |-> ms])
                /\ ret' = ExpectationFromMeasurements(ms)
                /\ pc' = "done"
                /\ UNCHANGED err
    /\ UNCHANGED << args, executor, qubits, inverse_confusion_matrix,
                    locals, noneCalls, totalCalibrations, setup >>

\* A direct call with a supplied matrix.  The executor is a bare callable
\* or an Executor object; the observable may be left at its default, None.
CallPatterns ==
    {[wrapped |-> FALSE, observable |-> ZSum],
     [wrapped |-> TRUE, observable |-> ZSum],
     [wrapped |-> FALSE, observable |-> None]}

CallDirect ==
    /\ pc = "idle"
    /\ \E c \in Circuits, fn \in Functions, pat \in CallPatterns :
       \E m \in SuppliedMatrices(c.nqubits) :
        /\ fn.returns = "noisy" =>
              (c.ideal = AllOnes(c.nqubits) /\ ~pat.wrapped /\ pat.observable = ZSum)
        /\ Begin("direct", c, IF pat.wrapped THEN ExecutorOf(fn) ELSE fn,
                 pat.observable, m, DefaultP, DefaultP)

\* The caller has taken the value or the exception of the finished call and
\* drops it; the call's frame is gone.
Forget ==
    /\ pc = "done"
    /\ pc' = "idle"
    /\ args' = None
    /\ executor' = None
    /\ qubits' = << >>
    /\ inverse_confusion_matrix' = None
    /\ noisy_result' = None
    /\ noisy_state_vectors' = None
    /\ adjusted_state_vectors' = None
    /\ adjusted_result' = None
    /\ result' = None
    /\ ret' = None
    /\ err' = "none"
    /\ log' = << >>
    /\ UNCHANGED << noneCalls, totalCalibrations, setup >>

\* Calls with a supplied matrix, each through to its end.
Next ==
    \/ CallDirect
    \/ Forget
    \/ RunExecutor
    \/ Resample
    \/ Evaluate

Spec == Init /\ [][Next]_vars

\* -------------------------------------- mitigate_executor, rci_decorator
\* functools.wraps left out: the wrapper keeps its own name and docstring
NoWraps(wrapped, wrapper) == wrapper

\* functools.wraps(wrapped)(wrapper): the wrapper takes the wrapped
\* function's __name__ and __doc__ and remembers it as __wrapped__
Wraps(wrapped, wrapper) ==
    [wrapper EXCEPT !.name = wrapped.name, !.doc = wrapped.doc,
                    !.wrapped = wrapped]

\* def new_executor(qp) inside mitigate_executor, closed over its arguments
new_executor(exec, observable, matrix, p0, p1) ==
    [type |-> "function", name |-> "new_executor", doc |-> NoDoc,
     returns |-> "float", wrapped |-> None,
     closure |-> [executor |-> exec, observable |-> observable,
                  inverse_confusion_matrix |-> matrix, p0 |-> p0, p1 |-> p1]]

\* mitigate_executor (lines 138-149)
mitigate_executor(exec, observable, matrix, p0, p1) ==
    Wraps(exec, new_executor(exec, observable, matrix, p0, p1))

\* callable(observable) that never detects a function
NeverCallable(x) == FALSE

\* callable(observable) (line 179): functions are, observables and None
\* are not
Callable(x) == x.type = "function"

\* def decorator(executor) inside rci_decorator, closed over its arguments
decorator_closure(observable, matrix, p0, p1) ==
    [type |-> "function", name |-> "decorator",
     closure |-> [observable |-> observable,
                  inverse_confusion_matrix |-> matrix, p0 |-> p0, p1 |-> p1]]

\* Inputs of the adapter operations.
AdapterFunctions == {noisy_readout_executor, first_executor}
AdapterMatrices == {None, AntiDiag(Pow2(MaxQubits))}
AdapterCircuits == {Circuit(n, AllOnes(n)) : n \in 1..MaxQubits}

\* rci_decorator(observable, inverse_confusion_matrix=...), or the misuse
\* @rci_decorator, which passes the executor function as observable.
RciDecorator ==
    /\ pc = "idle"
    /\ \E first \in {ZSum, None} \cup AdapterFunctions, m \in AdapterMatrices :
          /\ first.type = "function" => m = None
          /\ decoratorArg' = first
          /\ IF Callable(first)
             THEN setupErr' = "TypeError" /\ decorator' = None
             ELSE /\ setupErr' = "none"
                  /\ decorator' = decorator_closure(first, m, DefaultP, DefaultP)
    /\ UNCHANGED << pc, args, executor, qubits, inverse_confusion_matrix,
                    locals, ret, err, log, noneCalls,
                    totalCalibrations, mitigated, mitigatedBy >>

\* decorator(executor) (lines 185-194)
ApplyDecorator ==
    /\ pc = "idle"
    /\ decorator # None
    /\ \E f \in AdapterFunctions :
          mitigated' = mitigate_executor(
              f, decorator.closure.observable,
              decorator.closure.inverse_confusion_matrix,
              decorator.closure.p0, decorator.closure.p1)
    /\ mitigatedBy' = "rci_decorator"
    /\ UNCHANGED << pc, args, executor, qubits, inverse_confusion_matrix,
                    locals, ret, err, log, noneCalls,
                    totalCalibrations, decorator, decoratorArg, setupErr >>

\* mitigate_executor called by the user
MitigateExecutor ==
    /\ pc = "idle"
    /\ \E f \in AdapterFunctions, m \in AdapterMatrices :
          mitigated' = mitigate_executor(f, ZSum, m, DefaultP, DefaultP)
    /\ mitigatedBy' = "user"
    /\ UNCHANGED << pc, args, executor, qubits, inverse_confusion_matrix,
                    locals, ret, err, log, noneCalls,
                    totalCalibrations, decorator, decoratorArg, setupErr >>

\* new_executor(qp) (lines 139-147)
CallMitigated ==
    /\ pc = "idle"
    /\ mitigated # None
    /\ \E qp \in AdapterCircuits :
          Begin("new_executor", qp, mitigated.closure.executor,
                mitigated.closure.observable,
                mitigated.closure.inverse_confusion_matrix,
                mitigated.closure.p0, mitigated.closure.p1)

\* execute_with_rci called by the user, beside the adapters, with a bare
\* callable or an Executor object, with or without a matrix
CallBeside ==
    /\ pc = "idle"
    /\ \E c \in AdapterCircuits, f \in AdapterFunctions, wrapped \in BOOLEAN,
          m \in AdapterMatrices, p \in {DefaultP, FullFlipP} :
          /\ m # None => p = DefaultP
          /\ Begin("direct", c, IF wrapped THEN ExecutorOf(f) ELSE f, ZSum,
                   m, p, p)

\* Calls with and without a matrix, direct and through the adapters.
AdapterNext ==
    \/ RciDecorator
    \/ ApplyDecorator
    \/ MitigateExecutor
    \/ CallMitigated
    \/ CallBeside
    \/ Forget
    \/ Calibrate
    \/ RunExecutor
    \/ Resample
    \/ Evaluate

AdapterSpec == Init /\ [][AdapterNext]_vars

\* ================================================================ claims
NumQubits == Len(qubits)
Dim == Pow2(NumQubits)
NumShots == Rows(noisy_result.result)
Supplied == args.inverse_confusion_matrix
Succeeded == pc = "done" /\ err = "none"
HasNoisyResult == noisy_result # None /\ noisy_result.type = "MeasurementResult"
EventsOf(kind) == SelectSeq(log, LAMBDA e : e.ev = kind)
\* a shot's bit string as a binary integer, first recorded qubit most
\* significant
ShotValue(s) ==
    SeqSum([q \in 1..NumQubits |->
               At(noisy_result.result, s, q) * Pow2(NumQubits - q)])

\* C1: a call with a supplied matrix that is not 2^n x 2^n ends with an
\* error and returns no expectation value.
C1_InvalidMatrixFails ==
    (pc = "done" /\ Supplied # None /\ ~IsSquareOfDim(Supplied, Dim))
        => (err # "none" /\ ret = None)

\* C2: when a call with a supplied matrix whose size does not match 2^n
\* fails on the dimensions, nothing has been done yet: the executor has not
\* run, nothing was calibrated, vectorised, resampled or evaluated.
C2_FailsBeforeAnyWork ==
    (pc = "done" /\ err = "ValueError" /\ Supplied # None
        /\ ~IsSquareOfDim(Supplied, Dim))
        => (log = << >> /\ noisy_result = None /\ noisy_state_vectors = None
            /\ adjusted_result = None)

\* C3: with an executor that flips every bit of every shot and the
\* anti-diagonal 2^n x 2^n matrix, the call succeeds, every corrected shot
\* is the complement of the noisy shot, and the mitigated expectation value
\* is the true one.
C3_FullFlipRecovers ==
    (pc = "done" /\ executor.executor.returns = "flipped"
        /\ Supplied = AntiDiag(Dim) /\ args.observable = ZSum)
        => /\ err = "none"
           /\ result.result =
                 FromRows([s \in 1..NumShots |->
                              Complement(Row(noisy_result.result, s))])
           /\ ret.num = ret.shots *
                 SeqSum([q \in 1..NumQubits |-> 1 - 2 * args.circuit.ideal[q]])

\* C4: with the 2^n x 2^n identity as supplied matrix, for every noisy
\* result the call succeeds, the corrected result equals the noisy one
\* shot for shot and the mitigated expectation value the unmitigated one.
C4_IdentityInvariance ==
    (pc = "done" /\ HasNoisyResult /\ Supplied = Identity(Dim)
        /\ args.observable = ZSum)
        => /\ err = "none"
           /\ result.result = noisy_result.result
           /\ result.qubit_indices = noisy_result.qubit_indices
           /\ ret = ExpectationFromMeasurements(<< noisy_result >>)

\* C5: a call gives the notice and calibrates if and only if it has no
\* supplied matrix; it then does both exactly once, before the executor
\* runs; and every call without a supplied matrix calibrates again (over
\* all calls there are as many calibrations as such calls).
C5_CalibrationIffNoMatrix ==
    /\ pc = "calibrate" => (log = << >> /\ Supplied = None)
    /\ pc \notin {"idle", "calibrate"} =>
          IF Supplied = None
          THEN /\ Len(log) >= 2
               /\ log[1].ev = "notice"
               /\ log[2].ev = "calibrate"
               /\ Len(EventsOf("notice")) = 1
               /\ Len(EventsOf("calibrate")) = 1
          ELSE EventsOf("notice") = << >> /\ EventsOf("calibrate") = << >>
    /\ totalCalibrations = noneCalls - (IF pc = "calibrate" THEN 1 ELSE 0)
C5_Witness ==
    /\ Succeeded
    /\ args.via = "new_executor"
    /\ Supplied = None
    /\ noneCalls = 2
    /\ totalCalibrations = 2
    /\ log[3].ev = "run"

\* C6: every rci_decorator call whose first argument is a function ends
\* with a TypeError and returns no decorator; every other call returns a
\* decorator closed over that argument and raises nothing; neither runs
\* an executor, calibrates or starts a call.
C6_DecoratorMisuse ==
    [][RciDecorator =>
          /\ IF decoratorArg'.type = "function"
             THEN setupErr' = "TypeError" /\ decorator' = None
             ELSE /\ setupErr' = "none"
                  /\ decorator'.type = "function"
                  /\ decorator'.closure.observable = decoratorArg'
          /\ UNCHANGED << pc, log, noneCalls, totalCalibrations, mitigated >>]_vars
C6_Witness ==
    /\ decoratorArg = first_executor
    /\ setupErr = "TypeError"
    /\ decorator = None
    /\ totalCalibrations > 0

\* C7: the function made by mitigate_executor, called by the user or by
\* the decorator, has the name and the docstring of the executor function
\* it wraps.
C7_MetadataPreserved ==
    mitigated # None =>
        /\ mitigated.name = mitigated.closure.executor.name
        /\ mitigated.doc = mitigated.closure.executor.doc
C7_Witness ==
    /\ mitigated # None
    /\ mitigatedBy = "rci_decorator"
    /\ mitigated.closure.executor = first_executor
    /\ mitigated.doc = "Doc of the original executor."
    /\ mitigated.name = "first_executor"

\* C8: once the resampling has produced the corrected array, it has
\* exactly num_shots rows of n bits each, for any num_shots >= 1, n >= 1.
C8_CorrectedShape ==
    adjusted_result # None =>
        adjusted_result.shape = << NumShots, NumQubits >>

C10_OneHotAndColumns ==
    noisy_state_vectors # None =>
        /\ noisy_state_vectors.shape = << NumShots, Dim >>
        /\ \A s \in 1..NumShots : \A i \in 1..Dim :
              At(noisy_state_vectors, s, i) =
                  (IF i - 1 = ShotValue(s) THEN 1 ELSE 0)
        /\ IsSquareOfDim(inverse_confusion_matrix, Dim) =>
              /\ adjusted_state_vectors # None
              /\ adjusted_state_vectors.shape = << NumShots, Dim >>
              /\ \A s \in 1..NumShots :
                    Row(adjusted_state_vectors, s) =
                        Column(inverse_confusion_matrix, ShotValue(s) + 1)
C10_Witness ==
    /\ pc = "resample"
    /\ NumQubits = 2
    /\ NumShots = 2
    /\ inverse_confusion_matrix = Mix(4)
    /\ args.executor = noisy_executor
    /\ Row(noisy_result.result, 1) = << 0, 0 >>
    /\ Row(noisy_result.result, 2) = << 0, 1 >>
    /\ Row(adjusted_state_vectors, 1) = << 2, 0, 0, -1 >>
    /\ Row(adjusted_state_vectors, 2) = << 0, 2, 0, 0 >>
====
